---- MODULE Spec2Model ----
(***************************************************************************)
(* One running instance of the peer file-transfer application (App.tsx),   *)
(* together with its environment: the PeerJS transport (connections that   *)
(* open, deliver data, close, error), the remote peers that feed the data  *)
(* handler, the user (upload, select device, send), the browser timers and *)
(* the analysis service.                                                   *)
(*                                                                         *)
(* React state (devices, activeDeviceId, files) is updated through         *)
(* functional updaters, so every handler is one atomic action applied to   *)
(* the latest state.  devicesRef is the mirror of devices that the         *)
(* useEffect of App.tsx:35 refreshes after a render; it is a variable of   *)
(* its own, refreshed by SyncRefs.                                          *)
(*                                                                         *)
(* startsWith / endsWith on mime types and file names are computed on the  *)
(* strings themselves (SubSeq).                                            *)
(***************************************************************************)
EXTENDS Integers, Sequences, FiniteSets, Bags, TLC

\* ------------------------------------------------------------------ bounds
MaxFiles == 2     \* entries the file collection may hold
MaxBatch == 2     \* files in one upload (FileList length)
MaxId == 2        \* distinct file ids
DirMaxFiles == 1  \* MaxFiles of the specification over every connection
DirMaxId == 1
SendMaxFiles == 3
ClassMaxFiles == 2
ClassMaxId == 2     \* MaxId of the specification over every connection

\* ------------------------------------------------------------ small domains
NULL == "null"

FileIds == 1..MaxId

\* transport connections and the remote peer id (conn.peer) of each
\* c3 is a later connection of the peer of c1
Conns == {"c1", "c2", "c3"}

ConnPeer == [c \in Conns |-> IF c = "c2" THEN "ns-gst-q2" ELSE "ns-gst-q1"]

\* connections of two different peers
DirConns == {"c1", "c2"}

\* two connections of one peer
ReConns == {"c1", "c3"}

PeerIds == {ConnPeer[c] : c \in Conns}

\* HANDSHAKE payloads a peer may put on the wire (payload.name, payload.type)
Handshakes ==
    { [name |-> "Mac (t-q1)", type |-> "Mac"],
      [name |-> "Me", type |-> "Android"],
      [name |-> "", type |-> "iOS"] }

\* what this instance announces about itself
MyDeviceType == "Windows"

MyDeviceName == "Windows (ab12)"

\* prefixes, suffixes and mime types that determineFileType tests for
S_image == "image/"

S_text == "text/"

S_video == "video/"

S_json == "application/json"

S_pdf == "application/pdf"

S_md == ".md"

S_txt == ".txt"

\* File objects the user can pick: [name, type (mime), size, data]
LocalFiles ==
    { [name |-> "notes.txt", type |-> "text/plain", size |-> 10, data |-> "d1"],
      [name |-> "doc.pdf", type |-> "application/pdf", size |-> 20, data |-> "d2"] }

\* FILE_CHUNK payloads a peer may put on the wire, less the id:
\* meta.name, meta.type, meta.size and the blob (bytes: size, data)
WireChunks ==
    { [name |-> "pic.png", type |-> "image/png", size |-> 30,
       blob |-> [size |-> 30, data |-> "d3"]],
      [name |-> "clip", type |-> "video/mp4", size |-> 99,
       blob |-> [size |-> 20, data |-> "d4"]] }

\* ---------------------------------------------------------------- helpers
StartsWith(s, p) == Len(s) >= Len(p) /\ SubSeq(s, 1, Len(p)) = p

EndsWith(s, p) == Len(s) >= Len(p) /\ SubSeq(s, Len(s) - Len(p) + 1, Len(s)) = p

\* determineFileType of the earlier revision: the '.txt' suffix is not tested
determineFileType_NoTxt(mimeType, name) ==
    IF StartsWith(mimeType, S_image) THEN "IMAGE"
    ELSE IF StartsWith(mimeType, S_text) \/ mimeType = S_json
            \/ EndsWith(name, S_md) THEN "TEXT"
    ELSE IF mimeType = S_pdf THEN "PDF"
    ELSE IF StartsWith(mimeType, S_video) THEN "VIDEO"
    ELSE "UNKNOWN"

determineFileType(mimeType, name) ==
    IF StartsWith(mimeType, S_image) THEN "IMAGE"
    ELSE IF StartsWith(mimeType, S_text) \/ mimeType = S_json
            \/ EndsWith(name, S_md) \/ EndsWith(name, S_txt) THEN "TEXT"
    ELSE IF mimeType = S_pdf THEN "PDF"
    ELSE IF StartsWith(mimeType, S_video) THEN "VIDEO"
    ELSE "UNKNOWN"

\* { ...f, ...updates }
Merge(f, updates) ==
    [k \in DOMAIN f \cup DOMAIN updates |->
        IF k \in DOMAIN updates THEN updates[k] ELSE f[k]]

\* the (analysisStatus, transferStatus) pair of a file
StatusOf(f) == [a |-> f.analysisStatus, t |-> f.transferStatus]

\* A file store is the file collection together with, for each entry, the
\* sequence of status pairs the entry has gone through (st.hs[i] belongs to
\* st.fs[i]); the latter records the updates made inside one handler.
Store(fs, hs) == [fs |-> fs, hs |-> hs]

\* InsertFront putting the new files after the ones already present
InsertFront_Append(st, newFiles) ==
    Store(st.fs \o newFiles,
          st.hs \o [i \in 1..Len(newFiles) |-> <<StatusOf(newFiles[i])>>])

\* setFiles(prev => [...newFiles, ...prev])
InsertFront(st, newFiles) ==
    Store(newFiles \o st.fs,
          [i \in 1..Len(newFiles) |-> <<StatusOf(newFiles[i])>>] \o st.hs)

\* setFiles(prev => prev.map(f => f.id === id ? { ...f, ...updates } : f))
updateFileState(st, id, updates) ==
    LET nf == [i \in 1..Len(st.fs) |->
                 IF st.fs[i].id = id THEN Merge(st.fs[i], updates) ELSE st.fs[i]]
    IN Store(nf,
             [i \in 1..Len(st.fs) |->
                 IF StatusOf(nf[i]) # StatusOf(st.fs[i])
                 THEN Append(st.hs[i], StatusOf(nf[i]))
                 ELSE st.hs[i]])

\* ---------------------------------------------------------------- state
VARIABLES
    devices,         \* Device Directory: sequence of ConnectedDevice
    devicesRef,      \* devicesRef.current
    activeDeviceId,  \* selected device id or NULL
    files,           \* file collection, most recent first
    hist,            \* hist[i]: status pairs files[i] has gone through
    connState,       \* per connection: "none" | "pending" | "open" | "closed" | "failed"
    hsTimers,        \* connections with a pending sendHandshake timer
    sent,            \* per connection: messages submitted with conn.send, in order
    timers,          \* bag of file ids with a pending completion timer
    analysisCalls    \* bag of pending processFileWithGemini calls

\* Two running instances and the transport between them, for what involves
\* both ends of a session: role resolution, connecting and the handshake.
VARIABLES
    proc,            \* per instance: session identity, Peer, connection, directory
    wire             \* per instance: messages in flight to it, in order

\* What the last step was for the connection layer: the type of the message
\* it delivered to handleIncomingData, "ERROR" if it was a conn.on('error')
\* event, NULL otherwise. It is tracked by SpecData and SpecRe only and stays
\* at NULL in the other specifications.
VARIABLES
    rx

\* One instance started without a locator and two started with the locator it
\* shares, for what involves more than two instances: per instance its
\* identity, its Peer, its connection to each other instance, the messages in
\* flight to it on each connection, its directory and its selection.
VARIABLES
    star

appVars == <<devices, devicesRef, activeDeviceId, files, hist, connState,
             hsTimers, sent, timers, analysisCalls>>

sessVars == <<proc, wire, rx, star>>

vars == <<devices, devicesRef, activeDeviceId, files, hist, connState,
          hsTimers, sent, timers, analysisCalls, proc, wire, rx, star>>

Cur == Store(files, hist)

\* the instances of the two-instance view
Procs == {"p1", "p2"}

\* the connection slot of an instance before any connection exists
NoConn == [peer |-> NULL, state |-> "none", timer |-> FALSE]

\* an instance before its initialization effect has run; loc is the value of
\* the hostId query parameter of the URL it was started with (NULL: absent)
ProcInit(loc) ==
    [locator |-> loc, url |-> loc, initializedRef |-> FALSE, isHost |-> FALSE,
     remoteHostId |-> NULL, myPeerId |-> "", hostId |-> "", shareUrl |-> "",
     peer |-> "none", conn |-> NoConn, connects |-> << >>, alerted |-> FALSE,
     devices |-> << >>, activeDeviceId |-> NULL, sent |-> << >>]

\* the instances of the three-instance view
Nodes == {"a", "j1", "j2"}

\* the hostId query parameter each of them is started with: none for the
\* first, and for the others the one the first publishes in its share URL
StarLocator == [n \in Nodes |-> IF n = "a" THEN NULL ELSE "ns-ab12"]

\* 'ns-' + random for a host, 'ns-gst-' + random for a guest
StarMint(n, host) ==
    IF host THEN "ns-ab12" ELSE IF n = "j1" THEN "ns-gst-q1" ELSE "ns-gst-q2"

\* an instance once initPeer has resolved its role and created its Peer
StarNode(n) ==
    LET remoteHostId == StarLocator[n]
        isHost == remoteHostId \in {NULL, ""}
        myId == StarMint(n, isHost)
    IN [isHost |-> isHost, myPeerId |-> myId,
        hostId |-> IF isHost THEN myId ELSE remoteHostId,
        peer |-> "created",
        conns |-> [m \in Nodes |-> [state |-> "none", timer |-> FALSE]],
        inbox |-> [m \in Nodes |-> << >>],
        devices |-> << >>, activeDeviceId |-> NULL]

StarStart == star = [n \in Nodes |-> StarNode(n)]

\* the two-instance view at rest
SessionIdle ==
    /\ proc = [p \in Procs |-> ProcInit(NULL)]
    /\ wire = [p \in Procs |-> << >>]
    /\ rx = NULL
    /\ StarStart

AppInit ==
    /\ devices = << >>
    /\ devicesRef = << >>
    /\ activeDeviceId = NULL
    /\ files = << >>
    /\ hist = << >>
    /\ connState = [c \in Conns |-> "none"]
    /\ hsTimers = {}
    /\ sent = [c \in Conns |-> << >>]
    /\ timers = EmptyBag
    /\ analysisCalls = EmptyBag

Init == AppInit /\ SessionIdle

\* ------------------------------------------------------ analysis coordinator
\* processReceivedFile up to its first await: the status update it makes
processReceivedFile(st, file) ==
    IF file.type = "IMAGE" \/ file.type = "TEXT"
    THEN updateFileState(st, file.id, [analysisStatus |-> "analyzing"])
    ELSE updateFileState(st, file.id, [analysisStatus |-> "skipped"])

\* the processFileWithGemini calls that processReceivedFile leaves pending
RECURSIVE CallsOf(_)
CallsOf(newFiles) ==
    IF newFiles = << >> THEN EmptyBag
    ELSE LET f == Head(newFiles)
         IN (IF f.type = "IMAGE" \/ f.type = "TEXT"
             THEN SetToBag({[id |-> f.id, type |-> f.type]})
             ELSE EmptyBag) (+) CallsOf(Tail(newFiles))

\* ProcessAll awaiting each file's analysis before starting the next: when
\* the handler returns only the first file has been handed over
ProcessAll_FirstOnly(st, newFiles) ==
    IF newFiles = << >> THEN st
    ELSE processReceivedFile(st, Head(newFiles))

\* processReceivedFile applied to each new file in turn
RECURSIVE ProcessAll(_, _)
ProcessAll(st, newFiles) ==
    IF newFiles = << >> THEN st
    ELSE ProcessAll(processReceivedFile(st, Head(newFiles)), Tail(newFiles))

\* How a processFileWithGemini call can settle: [ok |-> TRUE, metaData]
\* when the promise resolves, [ok |-> FALSE] when it rejects.
\* Without an API key it resolves to a notice; analyzeImage and analyzeText
\* catch every error and resolve to a fallback summary; only file.text(),
\* awaited outside their try blocks, can make the promise reject.
processFileWithGemini(type) ==
    {[ok |-> TRUE, metaData |-> "api-key-missing"]} \cup
    (IF type = "IMAGE"
     THEN {[ok |-> TRUE, metaData |-> "summary"],
           [ok |-> TRUE, metaData |-> "analysis-failed"]}
     ELSE IF type = "TEXT"
     THEN {[ok |-> FALSE],
           [ok |-> TRUE, metaData |-> "summary"],
           [ok |-> TRUE, metaData |-> "analysis-failed"]}
     ELSE {[ok |-> TRUE, metaData |-> "not-supported"]})

\* AnalysisSettled writing back the entry as it was when the call started
\* (transferStatus included) together with the new analysisStatus
AnalysisSettled_Stale(call, r) ==
    /\ BagIn(call, analysisCalls)
    /\ r \in processFileWithGemini(call.type)
    /\ analysisCalls' = analysisCalls (-) SetToBag({call})
    /\ LET st == IF r.ok
                 THEN updateFileState(Cur, call.id,
                          [analysisStatus |-> "completed", metaData |-> r.metaData,
                           transferStatus |-> "queued"])
                 ELSE updateFileState(Cur, call.id,
                          [analysisStatus |-> "failed", transferStatus |-> "queued"])
       IN /\ files' = st.fs
          /\ hist' = st.hs
    /\ UNCHANGED <<devices, devicesRef, activeDeviceId, connState, hsTimers,
                   sent, timers>>

\* AnalysisSettled that also retitles the file with its result
AnalysisSettled_Retitle(call, r) ==
    /\ BagIn(call, analysisCalls)
    /\ r \in processFileWithGemini(call.type)
    /\ analysisCalls' = analysisCalls (-) SetToBag({call})
    /\ LET st == IF r.ok
                 THEN updateFileState(Cur, call.id,
                          [analysisStatus |-> "completed", metaData |-> r.metaData,
                           name |-> r.metaData])
                 ELSE updateFileState(Cur, call.id, [analysisStatus |-> "failed"])
       IN /\ files' = st.fs
          /\ hist' = st.hs
    /\ UNCHANGED <<devices, devicesRef, activeDeviceId, connState, hsTimers,
                   sent, timers>>

\* the continuation of processReceivedFile after the await
AnalysisSettled(call, r) ==
    /\ BagIn(call, analysisCalls)
    /\ r \in processFileWithGemini(call.type)
    /\ analysisCalls' = analysisCalls (-) SetToBag({call})
    /\ LET st == IF r.ok
                 THEN updateFileState(Cur, call.id,
                          [analysisStatus |-> "completed", metaData |-> r.metaData])
                 ELSE updateFileState(Cur, call.id, [analysisStatus |-> "failed"])
       IN /\ files' = st.fs
          /\ hist' = st.hs
    /\ UNCHANGED <<devices, devicesRef, activeDeviceId, connState, hsTimers,
                   sent, timers>>

\* ------------------------------------------------------------ local upload
\* NewLocalFile with the entry created already Sending
NewLocalFile_Sending(id, file) ==
    [id |-> id, fileObject |-> file, name |-> file.name, size |-> file.size,
     type |-> determineFileType(file.type, file.name), fromDevice |-> "Me",
     analysisStatus |-> "pending", transferStatus |-> "sending"]

NewLocalFile(id, file) ==
    [id |-> id, fileObject |-> file, name |-> file.name, size |-> file.size,
     type |-> determineFileType(file.type, file.name), fromDevice |-> "Me",
     analysisStatus |-> "pending", transferStatus |-> "queued"]

handleFileUpload(ids, fileList) ==
    LET newFiles == [i \in 1..Len(fileList) |-> NewLocalFile(ids[i], fileList[i])]
        st == ProcessAll(InsertFront(Cur, newFiles), newFiles)
    IN /\ files' = st.fs
       /\ hist' = st.hs
       /\ analysisCalls' = analysisCalls (+) CallsOf(newFiles)
       /\ UNCHANGED <<devices, devicesRef, activeDeviceId, connState, hsTimers,
                      sent, timers>>

\* ------------------------------------------------------------ connections
\* devices.find(d => d.id === id): index of the first match, 0 if none
Find(ds, id) ==
    IF \E i \in 1..Len(ds) : ds[i].id = id
    THEN CHOOSE i \in 1..Len(ds) :
            ds[i].id = id /\ \A j \in 1..(i - 1) : ds[j].id # id
    ELSE 0

HandshakeMsg ==
    [type |-> "HANDSHAKE",
     payload |-> [name |-> MyDeviceName, type |-> MyDeviceType]]

\* setupConnection: listeners registered; when the connection is already
\* open the handshake timer is started at once, otherwise on its open event
setupConnection(c, isOpen) ==
    /\ connState[c] = "none"
    /\ connState' = [connState EXCEPT ![c] = IF isOpen THEN "open" ELSE "pending"]
    /\ hsTimers' = IF isOpen THEN hsTimers \cup {c} ELSE hsTimers
    /\ UNCHANGED <<devices, devicesRef, activeDeviceId, files, hist, sent,
                   timers, analysisCalls>>

\* conn.on('open')
OnOpen(c) ==
    /\ connState[c] = "pending"
    /\ connState' = [connState EXCEPT ![c] = "open"]
    /\ hsTimers' = hsTimers \cup {c}
    /\ UNCHANGED <<devices, devicesRef, activeDeviceId, files, hist, sent,
                   timers, analysisCalls>>

\* the 500 ms timer fires: sendHandshake; conn.send may raise (nothing is
\* submitted then)
sendHandshake(c, ok) ==
    /\ c \in hsTimers
    /\ hsTimers' = hsTimers \ {c}
    /\ sent' = IF ok THEN [sent EXCEPT ![c] = Append(@, HandshakeMsg)] ELSE sent
    /\ UNCHANGED <<devices, devicesRef, activeDeviceId, files, hist, connState,
                   timers, analysisCalls>>

\* conn.on('close') that also gives up the transfers in progress: files that
\* are Sending become Failed and their completion timers are cleared
OnClose_FailSending(c) ==
    /\ connState[c] \in {"pending", "open"}
    /\ connState' = [connState EXCEPT ![c] = "closed"]
    /\ devices' = [i \in 1..Len(devices) |->
                     IF devices[i].id = ConnPeer[c]
                     THEN Merge(devices[i], [status |-> "offline"])
                     ELSE devices[i]]
    /\ files' = [i \in 1..Len(files) |->
                   IF files[i].transferStatus = "sending"
                   THEN Merge(files[i], [transferStatus |-> "failed"])
                   ELSE files[i]]
    /\ hist' = [i \in 1..Len(files) |->
                  IF files[i].transferStatus = "sending"
                  THEN Append(hist[i], StatusOf(files'[i]))
                  ELSE hist[i]]
    /\ timers' = EmptyBag
    /\ UNCHANGED <<devicesRef, activeDeviceId, hsTimers, sent, analysisCalls>>

\* conn.on('close') removing the entry instead of marking it offline
OnClose_Remove(c) ==
    /\ connState[c] \in {"pending", "open"}
    /\ connState' = [connState EXCEPT ![c] = "closed"]
    /\ devices' = SelectSeq(devices, LAMBDA d : d.id # ConnPeer[c])
    /\ UNCHANGED <<devicesRef, activeDeviceId, files, hist, hsTimers, sent,
                   timers, analysisCalls>>

\* conn.on('close')
OnClose(c) ==
    /\ connState[c] \in {"pending", "open"}
    /\ connState' = [connState EXCEPT ![c] = "closed"]
    /\ devices' = [i \in 1..Len(devices) |->
                     IF devices[i].id = ConnPeer[c]
                     THEN Merge(devices[i], [status |-> "offline"])
                     ELSE devices[i]]
    /\ UNCHANGED <<devicesRef, activeDeviceId, files, hist, hsTimers, sent,
                   timers, analysisCalls>>

\* peer.on('error') made fatal: the Peer is torn down, so every connection
\* closes and every device goes offline
OnPeerUnavailable_Fatal(c) ==
    /\ connState[c] = "pending"
    /\ connState' = [d \in Conns |-> IF d = c THEN "failed"
                                     ELSE IF connState[d] = "none" THEN "none"
                                     ELSE "closed"]
    /\ devices' = [i \in 1..Len(devices) |->
                      [devices[i] EXCEPT !.status = "offline"]]
    /\ hsTimers' = {}
    /\ UNCHANGED <<devicesRef, activeDeviceId, files, hist, sent, timers,
                   analysisCalls>>

\* peer.on('error') with type 'peer-unavailable' for an outstanding connect:
\* logged and alerted; the connection never opens
OnPeerUnavailable(c) ==
    /\ connState[c] = "pending"
    /\ connState' = [connState EXCEPT ![c] = "failed"]
    /\ UNCHANGED <<devices, devicesRef, activeDeviceId, files, hist, hsTimers,
                   sent, timers, analysisCalls>>

\* conn.on('error'): logged, nothing else
OnError(c) ==
    /\ connState[c] \in {"pending", "open"}
    /\ UNCHANGED appVars

\* useEffect(() => { devicesRef.current = devices }, [devices])
SyncRefs ==
    /\ devicesRef # devices
    /\ devicesRef' = devices
    /\ UNCHANGED <<devices, activeDeviceId, files, hist, connState, hsTimers,
                   sent, timers, analysisCalls>>

\* Sidebar: onSelectDevice(device.id) for a listed device
SelectDevice(i) ==
    /\ i \in 1..Len(devices)
    /\ activeDeviceId' = devices[i].id
    /\ UNCHANGED <<devices, devicesRef, files, hist, connState, hsTimers, sent,
                   timers, analysisCalls>>

\* ------------------------------------------------------------ data handler
\* handleIncomingData, case 'HANDSHAKE', without the "already registered" test
OnHandshake_NoFind(c, name, type) ==
    /\ connState[c] = "open"
    /\ Len(devices) < 3
    /\ devices' = Append(devices,
                         [id |-> ConnPeer[c], name |-> name, type |-> type,
                          status |-> "online", connection |-> c])
    /\ activeDeviceId' = IF activeDeviceId # NULL THEN activeDeviceId
                         ELSE ConnPeer[c]
    /\ UNCHANGED <<devicesRef, files, hist, connState, hsTimers, sent, timers,
                   analysisCalls>>

\* handleIncomingData, case 'HANDSHAKE', selecting the device that greeted last
OnHandshake_SelectLatest(c, name, type) ==
    /\ connState[c] = "open"
    /\ devices' = IF Find(devices, ConnPeer[c]) # 0 THEN devices
                  ELSE Append(devices,
                         [id |-> ConnPeer[c], name |-> name, type |-> type,
                          status |-> "online", connection |-> c])
    /\ activeDeviceId' = ConnPeer[c]
    /\ UNCHANGED <<devicesRef, files, hist, connState, hsTimers, sent, timers,
                   analysisCalls>>

\* handleIncomingData, case 'HANDSHAKE', refreshing the entry of a peer that
\* is already registered
OnHandshake_Refresh(c, name, type) ==
    LET newDevice == [id |-> ConnPeer[c], name |-> name, type |-> type,
                      status |-> "online", connection |-> c]
    IN /\ connState[c] = "open"
       /\ devices' = IF Find(devices, ConnPeer[c]) # 0
                     THEN [devices EXCEPT ![Find(devices, ConnPeer[c])] = newDevice]
                     ELSE Append(devices, newDevice)
       /\ activeDeviceId' = IF activeDeviceId # NULL THEN activeDeviceId
                            ELSE ConnPeer[c]
       /\ UNCHANGED <<devicesRef, files, hist, connState, hsTimers, sent,
                      timers, analysisCalls>>

\* handleIncomingData, case 'HANDSHAKE'
OnHandshake(c, name, type) ==
    /\ connState[c] = "open"
    /\ devices' = IF Find(devices, ConnPeer[c]) # 0 THEN devices
                  ELSE Append(devices,
                         [id |-> ConnPeer[c], name |-> name, type |-> type,
                          status |-> "online", connection |-> c])
    /\ activeDeviceId' = IF activeDeviceId # NULL THEN activeDeviceId
                         ELSE ConnPeer[c]
    /\ UNCHANGED <<devicesRef, files, hist, connState, hsTimers, sent, timers,
                   analysisCalls>>

\* devicesRef.current.find(d => d.id === conn.peer)?.name || 'Unknown Device'
SenderName(ds, peer) ==
    LET i == Find(ds, peer)
    IN IF i = 0 THEN "Unknown Device"
       ELSE IF ds[i].name = "" THEN "Unknown Device"
       ELSE ds[i].name

\* ReceivedFile with an id of the receiver's own instead of meta.id
ReceivedFile_OwnId(meta, blob, sender) ==
    [id |-> 0,
     fileObject |-> [name |-> meta.name, type |-> meta.type,
                     size |-> blob.size, data |-> blob.data],
     name |-> meta.name, size |-> meta.size,
     type |-> determineFileType(meta.type, meta.name),
     fromDevice |-> sender,
     analysisStatus |-> "pending", transferStatus |-> "received"]

\* the TransferFile built from a FILE_CHUNK payload
ReceivedFile(meta, blob, sender) ==
    [id |-> meta.id,
     fileObject |-> [name |-> meta.name, type |-> meta.type,
                     size |-> blob.size, data |-> blob.data],
     name |-> meta.name, size |-> meta.size,
     type |-> determineFileType(meta.type, meta.name),
     fromDevice |-> sender,
     analysisStatus |-> "pending", transferStatus |-> "received"]

\* handleIncomingData, case 'FILE_CHUNK'
OnFileChunk(c, meta, blob) ==
    LET receivedFile == ReceivedFile(meta, blob, SenderName(devicesRef, ConnPeer[c]))
        st == processReceivedFile(InsertFront(Cur, <<receivedFile>>), receivedFile)
    IN /\ connState[c] = "open"
       /\ files' = st.fs
       /\ hist' = st.hs
       /\ analysisCalls' = analysisCalls (+) CallsOf(<<receivedFile>>)
       /\ UNCHANGED <<devices, devicesRef, activeDeviceId, connState, hsTimers,
                      sent, timers>>

\* message types of P2PMessage that handleIncomingData has no case for
Reserved == {"FILE_META", "FILE_END"}

\* a message of a reserved type; no code reads its payload
ReservedMsg(t) == [type |-> t, payload |-> NULL]

\* an inbound HANDSHAKE and an inbound FILE_CHUNK as the peer sends them
HandshakeIn(h) == [type |-> "HANDSHAKE", payload |-> h]

FileChunkIn(id, w) ==
    [type |-> "FILE_CHUNK",
     payload |-> [meta |-> [id |-> id, name |-> w.name, type |-> w.type,
                            size |-> w.size],
                  blob |-> w.blob]]

\* handleIncomingData treating a message it has no case for as a protocol
\* violation: the connection is closed
handleIncomingData_Violation(c, data) ==
    IF data.type = "HANDSHAKE"
    THEN OnHandshake(c, data.payload.name, data.payload.type)
    ELSE IF data.type = "FILE_CHUNK"
    THEN OnFileChunk(c, data.payload.meta, data.payload.blob)
    ELSE OnClose(c)

\* conn.on('data', data => handleIncomingData(data, conn)): the switch on
\* data.type has the cases 'HANDSHAKE' and 'FILE_CHUNK' and no default
handleIncomingData(c, data) ==
    IF data.type = "HANDSHAKE"
    THEN OnHandshake(c, data.payload.name, data.payload.type)
    ELSE IF data.type = "FILE_CHUNK"
    THEN OnFileChunk(c, data.payload.meta, data.payload.blob)
    ELSE /\ connState[c] = "open"
         /\ UNCHANGED appVars

\* ------------------------------------------------------------------- send
\* FILE_CHUNK whose meta.type is the generic binary type instead of the
\* File's own type
FileChunkMsg_Generic(file) ==
    [type |-> "FILE_CHUNK",
     payload |-> [meta |-> [id |-> file.id, name |-> file.name,
                            type |-> "application/octet-stream", size |-> file.size],
                  blob |-> file.fileObject]]

FileChunkMsg(file) ==
    [type |-> "FILE_CHUNK",
     payload |-> [meta |-> [id |-> file.id, name |-> file.name,
                            type |-> file.fileObject.type, size |-> file.size],
                  blob |-> file.fileObject]]

IsQueuedMine(f) == f.fromDevice = "Me" /\ f.transferStatus = "queued"

\* SendEach without the setTimeout that completes a submitted file
RECURSIVE SendEach_NoTimer(_, _, _, _)
SendEach_NoTimer(r, filesToSend, k, raises) ==
    IF k > Len(filesToSend) THEN r
    ELSE LET file == filesToSend[k]
             st1 == updateFileState(r.st, file.id, [transferStatus |-> "sending"])
         IN IF k \in raises
            THEN SendEach_NoTimer([r EXCEPT !.st = updateFileState(st1, file.id,
                                              [transferStatus |-> "failed"])],
                                  filesToSend, k + 1, raises)
            ELSE SendEach_NoTimer([r EXCEPT !.st = st1,
                                    !.out = Append(r.out, FileChunkMsg(file))],
                                  filesToSend, k + 1, raises)

\* SendEach with the setTimeout placed after the try block: it is started
\* for a file whose conn.send raised as well
RECURSIVE SendEach_TimerAlways(_, _, _, _)
SendEach_TimerAlways(r, filesToSend, k, raises) ==
    IF k > Len(filesToSend) THEN r
    ELSE LET file == filesToSend[k]
             st1 == updateFileState(r.st, file.id, [transferStatus |-> "sending"])
         IN IF k \in raises
            THEN SendEach_TimerAlways([r EXCEPT !.st = updateFileState(st1, file.id,
                                              [transferStatus |-> "failed"]),
                                    !.tm = r.tm (+) SetToBag({file.id})],
                                  filesToSend, k + 1, raises)
            ELSE SendEach_TimerAlways([r EXCEPT !.st = st1,
                                    !.out = Append(r.out, FileChunkMsg(file)),
                                    !.tm = r.tm (+) SetToBag({file.id})],
                                  filesToSend, k + 1, raises)

\* The forEach of handleSendFiles over filesToSend[k..]; raises is the set of
\* positions whose conn.send raises.  The result is the file store, the
\* messages submitted and the completion timers started.
RECURSIVE SendEach(_, _, _, _)
SendEach(r, filesToSend, k, raises) ==
    IF k > Len(filesToSend) THEN r
    ELSE LET file == filesToSend[k]
             st1 == updateFileState(r.st, file.id, [transferStatus |-> "sending"])
         IN IF k \in raises
            THEN SendEach([r EXCEPT !.st = updateFileState(st1, file.id,
                                              [transferStatus |-> "failed"])],
                          filesToSend, k + 1, raises)
            ELSE SendEach([r EXCEPT !.st = st1,
                                    !.out = Append(r.out, FileChunkMsg(file)),
                                    !.tm = r.tm (+) SetToBag({file.id})],
                          filesToSend, k + 1, raises)

\* handleSendFiles selecting every file of "Me", whatever its transferStatus
handleSendFiles_AllMine(raises) ==
    LET t == Find(devicesRef, activeDeviceId)
        filesToSend == SelectSeq(files, LAMBDA f : f.fromDevice = "Me")
    IN IF t = 0
       THEN /\ raises = {}
            /\ UNCHANGED vars
       ELSE LET r == SendEach([st |-> Cur, out |-> << >>, tm |-> EmptyBag],
                              filesToSend, 1, raises)
            IN /\ raises \subseteq 1..Len(filesToSend)
               /\ files' = r.st.fs
               /\ hist' = r.st.hs
               /\ sent' = [sent EXCEPT ![devicesRef[t].connection] = @ \o r.out]
               /\ timers' = timers (+) r.tm
               /\ UNCHANGED <<devices, devicesRef, activeDeviceId, connState,
                              hsTimers, analysisCalls>>

\* handleSendFiles without the guard on the target device: with no target
\* every selected file is marked failed
handleSendFiles_NoGuard(raises) ==
    LET t == Find(devicesRef, activeDeviceId)
        filesToSend == SelectSeq(files, IsQueuedMine)
        all == 1..Len(filesToSend)
        r == SendEach([st |-> Cur, out |-> << >>, tm |-> EmptyBag],
                      filesToSend, 1, IF t = 0 THEN all ELSE raises)
    IN /\ raises \subseteq all
       /\ t = 0 => raises = {}
       /\ files' = r.st.fs
       /\ hist' = r.st.hs
       /\ sent' = IF t = 0 THEN sent
                  ELSE [sent EXCEPT ![devicesRef[t].connection] = @ \o r.out]
       /\ timers' = timers (+) r.tm
       /\ UNCHANGED <<devices, devicesRef, activeDeviceId, connState,
                      hsTimers, analysisCalls>>

handleSendFiles(raises) ==
    LET t == Find(devicesRef, activeDeviceId)
        filesToSend == SelectSeq(files, IsQueuedMine)
    IN IF t = 0
       THEN /\ raises = {}
            /\ UNCHANGED vars
       ELSE LET r == SendEach([st |-> Cur, out |-> << >>, tm |-> EmptyBag],
                              filesToSend, 1, raises)
            IN /\ raises \subseteq 1..Len(filesToSend)
               /\ files' = r.st.fs
               /\ hist' = r.st.hs
               /\ sent' = [sent EXCEPT ![devicesRef[t].connection] = @ \o r.out]
               /\ timers' = timers (+) r.tm
               /\ UNCHANGED <<devices, devicesRef, activeDeviceId, connState,
                              hsTimers, analysisCalls>>

\* the 800 ms timer of a submitted file fires
CompleteTimer(id) ==
    /\ BagIn(id, timers)
    /\ timers' = timers (-) SetToBag({id})
    /\ LET st == updateFileState(Cur, id, [transferStatus |-> "completed"])
       IN /\ files' = st.fs
          /\ hist' = st.hs
    /\ UNCHANGED <<devices, devicesRef, activeDeviceId, connState, hsTimers,
                   sent, analysisCalls>>

\* ------------------------------------------------------------ specification
\* Math.random().toString(36).substring(7) tokens: taken to collide neither
\* with one another nor with an id already in the collection.  (The ids of
\* inbound files come off the wire and are not so restricted.)
FreshIds(ids) ==
    /\ \A i, j \in DOMAIN ids : ids[i] = ids[j] => i = j
    /\ \A i \in DOMAIN ids : \A k \in 1..Len(files) : files[k].id # ids[i]

\* The next-state relation over the connections CS, with at most mf entries in
\* the file collection and ids drawn from IDS.
LocalOf(CS, mf, IDS) ==
    \/ \E n \in 1..MaxBatch :
          \E ids \in [1..n -> IDS], fileList \in [1..n -> LocalFiles] :
              /\ Len(files) + n <= mf
              /\ FreshIds(ids)
              /\ handleFileUpload(ids, fileList)
    \/ \E c \in CS, isOpen \in BOOLEAN : setupConnection(c, isOpen)
    \/ \E c \in CS : OnOpen(c)
    \/ \E c \in CS, ok \in BOOLEAN : sendHandshake(c, ok)
    \/ \E c \in CS : OnClose(c)
    \/ \E c \in CS : OnPeerUnavailable(c)
    \/ SyncRefs
    \/ \E i \in 1..Len(devices) : SelectDevice(i)
    \/ \E raises \in SUBSET (1..mf) : handleSendFiles(raises)
    \/ \E id \in IDS : CompleteTimer(id)
    \/ \E call \in BagToSet(analysisCalls) :
          \E r \in processFileWithGemini(call.type) : AnalysisSettled(call, r)

\* the steps in which a message arrives on a connection
InboundOf(CS, mf, IDS) ==
    \/ \E c \in CS, h \in Handshakes : handleIncomingData(c, HandshakeIn(h))
    \/ \E c \in CS, id \in IDS, w \in WireChunks :
          /\ Len(files) < mf
          /\ handleIncomingData(c, FileChunkIn(id, w))
    \/ \E c \in CS, t \in Reserved : handleIncomingData(c, ReservedMsg(t))

\* the steps in which a connection reports an error
ErrorOf(CS) == \E c \in CS : OnError(c)

NextOf(CS, mf, IDS) ==
    LocalOf(CS, mf, IDS) \/ ErrorOf(CS) \/ InboundOf(CS, mf, IDS)

\* one connection, the file collection in full
Next == NextOf({"c1"}, MaxFiles, FileIds) /\ UNCHANGED sessVars

Spec == Init /\ [][Next]_vars

\* every connection, a small file collection
NextDir == NextOf(DirConns, DirMaxFiles, 1..DirMaxId) /\ UNCHANGED sessVars

SpecDir == Init /\ [][NextDir]_vars

\* the steps of NextOf with deliveries and error events on record
TrackedOf(CS, mf, IDS) ==
    \/ LocalOf(CS, mf, IDS) /\ rx' = NULL
    \/ ErrorOf(CS) /\ rx' = "ERROR"
    \/ \E c \in CS, h \in Handshakes :
          handleIncomingData(c, HandshakeIn(h)) /\ rx' = "HANDSHAKE"
    \/ \E c \in CS, id \in IDS, w \in WireChunks :
          /\ Len(files) < mf
          /\ handleIncomingData(c, FileChunkIn(id, w))
          /\ rx' = "FILE_CHUNK"
    \/ \E c \in CS, t \in Reserved :
          handleIncomingData(c, ReservedMsg(t)) /\ rx' = t

\* one connection and a small file collection
NextData ==
    TrackedOf({"c1"}, DirMaxFiles, 1..DirMaxId) /\ UNCHANGED <<proc, wire, star>>

SpecData == Init /\ [][NextData]_vars

\* files that need no analysis (neither IMAGE nor TEXT)
UnanalysedFiles ==
    {f \in LocalFiles : determineFileType(f.type, f.name) \notin {"IMAGE", "TEXT"}}

UnanalysedChunks ==
    {w \in WireChunks : determineFileType(w.type, w.name) \notin {"IMAGE", "TEXT"}}

\* one connection and a file collection of up to SendMaxFiles entries that
\* need no analysis: upload, receipt, Send and the completion timers
NextSend ==
    /\ \/ \E n \in 1..MaxBatch :
             \E ids \in [1..n -> FileIds], fileList \in [1..n -> UnanalysedFiles] :
                 /\ Len(files) + n <= SendMaxFiles
                 /\ FreshIds(ids)
                 /\ handleFileUpload(ids, fileList)
       \/ setupConnection("c1", TRUE)
       \/ \E ok \in BOOLEAN : sendHandshake("c1", ok)
       \/ OnClose("c1")
       \/ \E h \in Handshakes : handleIncomingData("c1", HandshakeIn(h))
       \/ \E id \in FileIds, w \in UnanalysedChunks :
             /\ Len(files) < SendMaxFiles
             /\ handleIncomingData("c1", FileChunkIn(id, w))
       \/ SyncRefs
       \/ \E raises \in SUBSET (1..SendMaxFiles) : handleSendFiles(raises)
       \/ \E id \in FileIds : CompleteTimer(id)
    /\ UNCHANGED sessVars

SpecSend == Init /\ [][NextSend]_vars

\* a peer that connects a second time, and a small file collection
NextRe ==
    TrackedOf(ReConns, DirMaxFiles, 1..DirMaxId) /\ UNCHANGED <<proc, wire, star>>

SpecRe == Init /\ [][NextRe]_vars

\* declared content types and file names whose classification is examined:
\* every branch of determineFileType, its near misses (no slash, longer
\* subtype, suffix without dot or not at the end) and the pairs on which two
\* branches compete
ClassMimes == {"image/png", "image", "text/plain", "application/json",
               "application/jsonl", "application/pdf", "video/mp4", ""}

ClassNames == {"a.md", "b.txt", "c.bin", "md", "x.txt.bak"}

ClassFile(mime, name) == [name |-> name, type |-> mime, size |-> 1, data |-> "d"]

ClassChunk(mime, name) ==
    [name |-> name, type |-> mime, size |-> 1, blob |-> [size |-> 1, data |-> "d"]]

\* uploads and receipts over ClassMimes x ClassNames on one open connection
NextClassify ==
    /\ \/ \E id \in 1..ClassMaxId, mime \in ClassMimes, name \in ClassNames :
             /\ Len(files) < ClassMaxFiles
             /\ FreshIds(<<id>>)
             /\ handleFileUpload(<<id>>, <<ClassFile(mime, name)>>)
       \/ \E isOpen \in BOOLEAN : setupConnection("c1", isOpen)
       \/ OnOpen("c1")
       \/ \E id \in 1..ClassMaxId, mime \in ClassMimes, name \in ClassNames :
             /\ Len(files) < ClassMaxFiles
             /\ handleIncomingData("c1", FileChunkIn(id, ClassChunk(mime, name)))
       \/ \E call \in BagToSet(analysisCalls) :
             \E r \in processFileWithGemini(call.type) : AnalysisSettled(call, r)
    /\ UNCHANGED sessVars

SpecClassify == Init /\ [][NextClassify]_vars

\* ------------------------------------------------------------------ session
\* values of the hostId query parameter an instance may be started with:
\* absent, empty, the id of an Anchor, and text that is no id
Locators == {NULL, "", "ns-ab12", "!!bad"}

\* 'ns-' + Math.random().toString(36).substring(2, 6), per instance
MintAnchor == [p \in Procs |-> IF p = "p1" THEN "ns-ab12" ELSE "ns-cd34"]

\* 'ns-gst-' + Math.random().toString(36).substring(2, 6), per instance
MintGuest == [p \in Procs |-> IF p = "p1" THEN "ns-gst-q1" ELSE "ns-gst-q2"]

\* getMyDeviceType of each instance (from its user agent)
DeviceTypeOf == [p \in Procs |-> IF p = "p1" THEN "Windows" ELSE "Mac"]

\* the share URL for a hostId, less protocol, host and path
UrlFor(id) == "?hostId=" \o id

\* id.slice(-4)
Last4(id) == IF Len(id) <= 4 THEN id ELSE SubSeq(id, Len(id) - 3, Len(id))

\* getMyDeviceName, once the Peer exists
getMyDeviceName(p) == DeviceTypeOf[p] \o " (" \o Last4(proc[p].myPeerId) \o ")"

Other(p) == CHOOSE q \in Procs : q # p

SetProc(p, P) ==
    /\ proc' = [proc EXCEPT ![p] = P]
    /\ UNCHANGED <<appVars, rx, star>>

\* initPeer without the initializedRef test
initPeer_NoGuard(p) ==
    LET P == proc[p]
        remote == P.url
        host == remote \in {NULL, ""}
        myId == IF host THEN MintAnchor[p] ELSE MintGuest[p]
    IN /\ SetProc(p, [P EXCEPT !.initializedRef = TRUE,
                               !.isHost = host,
                               !.remoteHostId = remote,
                               !.myPeerId = myId,
                               !.hostId = IF host THEN myId ELSE remote,
                               !.url = IF host THEN myId ELSE remote,
                               !.shareUrl = UrlFor(IF host THEN myId ELSE remote),
                               !.peer = "created"])
       /\ UNCHANGED wire

\* initPeer calling peer.connect right after new Peer(myId)
initPeer_EagerConnect(p) ==
    LET P == proc[p]
        remote == P.url
        host == remote \in {NULL, ""}
        myId == IF host THEN MintAnchor[p] ELSE MintGuest[p]
    IN /\ ~ P.initializedRef
       /\ SetProc(p, [P EXCEPT !.initializedRef = TRUE,
                               !.isHost = host,
                               !.remoteHostId = remote,
                               !.myPeerId = myId,
                               !.hostId = IF host THEN myId ELSE remote,
                               !.url = IF host THEN myId ELSE remote,
                               !.shareUrl = UrlFor(IF host THEN myId ELSE remote),
                               !.peer = "created",
                               !.connects = IF host THEN @
                                            ELSE Append(@, [target |-> remote,
                                                            ready |-> FALSE])])
       /\ UNCHANGED wire

\* the initialization effect: it returns at once when it has run before;
\* otherwise initPeer resolves the role from the hostId parameter, mints the
\* id, records hostId / shareUrl / myPeerId (an Anchor also rewrites the
\* window URL) and creates the Peer
initPeer(p) ==
    LET P == proc[p]
        remote == P.url
        host == remote \in {NULL, ""}
        myId == IF host THEN MintAnchor[p] ELSE MintGuest[p]
    IN IF P.initializedRef
       THEN UNCHANGED vars
       ELSE /\ SetProc(p, [P EXCEPT !.initializedRef = TRUE,
                                    !.isHost = host,
                                    !.remoteHostId = remote,
                                    !.myPeerId = myId,
                                    !.hostId = IF host THEN myId ELSE remote,
                                    !.url = IF host THEN myId ELSE remote,
                                    !.shareUrl = UrlFor(IF host THEN myId ELSE remote),
                                    !.peer = "created"])
            /\ UNCHANGED wire

\* peer.on('open'): a Joiner connects to remoteHostId and sets the
\* connection up (it is not open yet: the handshake waits for its open event)
PeerOnOpen(p) ==
    LET P == proc[p]
    IN /\ P.peer = "created"
       /\ IF ~ P.isHost /\ P.remoteHostId \notin {NULL, ""}
          THEN SetProc(p, [P EXCEPT !.peer = "open",
                                    !.conn = [peer |-> P.remoteHostId,
                                              state |-> "pending", timer |-> FALSE],
                                    !.connects = Append(@, [target |-> P.remoteHostId,
                                                            ready |-> TRUE])])
          ELSE SetProc(p, [P EXCEPT !.peer = "open"])
       /\ UNCHANGED wire

\* peer.on('connection') at the instance the other one is connecting to:
\* setupConnection on the incoming connection, open already or not
PeerOnConnection(q, isOpen) ==
    LET Q == proc[q]
        P == proc[Other(q)]
    IN /\ Q.peer = "open"
       /\ Q.conn.state = "none"
       /\ P.conn.state = "pending"
       /\ P.conn.peer = Q.myPeerId
       /\ SetProc(q, [Q EXCEPT !.conn = [peer |-> P.myPeerId,
                                         state |-> IF isOpen THEN "open" ELSE "pending",
                                         timer |-> isOpen]])
       /\ UNCHANGED wire

\* peer.on('error') with type 'peer-unavailable': nobody is registered under
\* the id the instance connects to; the user is alerted
PeerOnError(p) ==
    LET P == proc[p]
        Q == proc[Other(p)]
    IN /\ P.conn.state = "pending"
       /\ ~ P.isHost
       /\ Q.conn.state = "none"
       /\ ~ (Q.peer = "open" /\ Q.myPeerId = P.conn.peer)
       /\ SetProc(p, [P EXCEPT !.alerted = TRUE, !.conn.state = "failed"])
       /\ UNCHANGED wire

\* conn.on('open'): the 500 ms handshake timer is started
ConnOnOpen(p) ==
    LET P == proc[p]
        Q == proc[Other(p)]
    IN /\ P.conn.state = "pending"
       /\ Q.conn.state \in {"pending", "open"}
       /\ Q.conn.peer = P.myPeerId
       /\ SetProc(p, [P EXCEPT !.conn.state = "open", !.conn.timer = TRUE])
       /\ UNCHANGED wire

\* the handshake message of an instance
HandshakeOf(p) ==
    [type |-> "HANDSHAKE",
     payload |-> [name |-> getMyDeviceName(p), type |-> DeviceTypeOf[p]]]

\* HandshakeTimer sending only in reply: it waits until the peer's HANDSHAKE
\* has been handled
HandshakeTimer_Reply(p) ==
    LET P == proc[p]
    IN /\ P.conn.timer
       /\ P.devices # << >>
       /\ IF P.conn.state = "open"
          THEN /\ SetProc(p, [P EXCEPT !.conn.timer = FALSE,
                                       !.sent = Append(@, HandshakeOf(p))])
               /\ wire' = [wire EXCEPT ![Other(p)] = Append(@, HandshakeOf(p))]
          ELSE /\ SetProc(p, [P EXCEPT !.conn.timer = FALSE])
               /\ UNCHANGED wire

\* HandshakeTimer submitting nothing
HandshakeTimer_Silent(p) ==
    /\ proc[p].conn.timer
    /\ SetProc(p, [proc[p] EXCEPT !.conn.timer = FALSE])
    /\ UNCHANGED wire

\* the 500 ms timer fires: sendHandshake calls conn.send whatever the state
\* of the connection; what is submitted on a connection that is no longer
\* open is not put in flight
HandshakeTimer(p) ==
    LET P == proc[p]
    IN /\ P.conn.timer
       /\ SetProc(p, [P EXCEPT !.conn.timer = FALSE,
                               !.sent = Append(@, HandshakeOf(p))])
       /\ wire' = IF P.conn.state = "open"
                  THEN [wire EXCEPT ![Other(p)] = Append(@, HandshakeOf(p))]
                  ELSE wire

\* conn.on('data') for the next message in flight: the HANDSHAKE case of
\* handleIncomingData
ConnOnData(p) ==
    LET P == proc[p]
        data == Head(wire[p])
        newDevice == [id |-> P.conn.peer, name |-> data.payload.name,
                      type |-> data.payload.type, status |-> "online",
                      connection |-> "conn"]
    IN /\ wire[p] # << >>
       /\ P.conn.state = "open"
       /\ wire' = [wire EXCEPT ![p] = Tail(@)]
       /\ SetProc(p, [P EXCEPT !.devices = IF Find(@, P.conn.peer) # 0 THEN @
                                           ELSE Append(@, newDevice),
                               !.activeDeviceId = IF @ # NULL THEN @
                                                  ELSE P.conn.peer])

\* conn.on('close') at one end
ConnOnClose(p) ==
    LET P == proc[p]
    IN /\ P.conn.state \in {"pending", "open"}
       /\ SetProc(p, [P EXCEPT !.conn.state = "closed",
                               !.devices = [i \in 1..Len(@) |->
                                              IF @[i].id = P.conn.peer
                                              THEN Merge(@[i], [status |-> "offline"])
                                              ELSE @[i]]])
       /\ UNCHANGED wire

\* every instance is started with some value of the hostId parameter
InitSession ==
    /\ AppInit
    /\ \E locs \in [Procs -> Locators] : proc = [p \in Procs |-> ProcInit(locs[p])]
    /\ wire = [p \in Procs |-> << >>]
    /\ rx = NULL
    /\ StarStart

NextSession ==
    \/ \E p \in Procs : initPeer(p)
    \/ \E p \in Procs : PeerOnOpen(p)
    \/ \E q \in Procs, isOpen \in BOOLEAN : PeerOnConnection(q, isOpen)
    \/ \E p \in Procs : PeerOnError(p)
    \/ \E p \in Procs : ConnOnOpen(p)
    \/ \E p \in Procs : HandshakeTimer(p)
    \/ \E p \in Procs : ConnOnData(p)
    \/ \E p \in Procs : ConnOnClose(p)

SpecSession == InitSession /\ [][NextSession]_vars

\* pending timers fire and messages in flight on an open connection are
\* delivered
LiveSession ==
    SpecSession /\ \A p \in Procs : /\ WF_vars(HandshakeTimer(p))
                                    /\ WF_vars(ConnOnData(p))

\* --------------------------------------------------------- three instances
\* the instance registered under a peer id, NULL if there is none
NodeOf(id) ==
    IF \E m \in Nodes : star[m].myPeerId = id
    THEN CHOOSE m \in Nodes : star[m].myPeerId = id
    ELSE NULL

SetNode(n, N) ==
    /\ star' = [star EXCEPT ![n] = N]
    /\ UNCHANGED <<appVars, proc, wire, rx>>

\* peer.on('open') of an instance that connects to every other instance
\* instead of to its hostId alone
StarPeerOnOpen_Mesh(n) ==
    LET N == star[n]
    IN /\ N.peer = "created"
       /\ IF ~ N.isHost
          THEN SetNode(n, [N EXCEPT !.peer = "open",
                                    !.conns = [m \in Nodes |->
                                                 IF m # n
                                                 THEN [state |-> "pending",
                                                       timer |-> FALSE]
                                                 ELSE @[m]]])
          ELSE SetNode(n, [N EXCEPT !.peer = "open"])

\* peer.on('open'): a guest calls peer.connect(remoteHostId) and sets the
\* connection up; a host connects to nobody
StarPeerOnOpen(n) ==
    LET N == star[n]
        m == NodeOf(N.hostId)
    IN /\ N.peer = "created"
       /\ IF ~ N.isHost /\ N.hostId \notin {NULL, ""} /\ m \notin {NULL, n}
          THEN SetNode(n, [N EXCEPT !.peer = "open",
                                    !.conns[m] = [state |-> "pending",
                                                  timer |-> FALSE]])
          ELSE SetNode(n, [N EXCEPT !.peer = "open"])

\* peer.on('connection') at m for the connection n has made to it: any
\* instance, host or guest, sets an incoming connection up
StarPeerOnConnection(m, n, isOpen) ==
    LET M == star[m]
    IN /\ m # n
       /\ M.peer = "open"
       /\ M.conns[n].state = "none"
       /\ star[n].conns[m].state = "pending"
       /\ SetNode(m, [M EXCEPT !.conns[n] =
                                  [state |-> IF isOpen THEN "open" ELSE "pending",
                                   timer |-> isOpen]])

\* conn.on('open') at n for its connection with m
StarConnOnOpen(n, m) ==
    LET N == star[n]
    IN /\ N.conns[m].state = "pending"
       /\ star[m].conns[n].state \in {"pending", "open"}
       /\ SetNode(n, [N EXCEPT !.conns[m] = [state |-> "open", timer |-> TRUE]])

StarHandshakeOf(n) ==
    [type |-> "HANDSHAKE",
     payload |-> [name |-> "Mac (" \o Last4(star[n].myPeerId) \o ")",
                  type |-> "Mac"]]

\* the 500 ms timer of n's connection with m fires: sendHandshake
StarHandshakeTimer(n, m) ==
    LET N == star[n]
    IN /\ N.conns[m].timer
       /\ star' = [star EXCEPT
                     ![n].conns[m].timer = FALSE,
                     ![m].inbox[n] = IF N.conns[m].state = "open"
                                     THEN Append(@, StarHandshakeOf(n))
                                     ELSE @]
       /\ UNCHANGED <<appVars, proc, wire, rx>>

\* conn.on('data') at n for the next message in flight from m: the
\* HANDSHAKE case of handleIncomingData, with conn.peer the id of m
StarConnOnData(n, m) ==
    LET N == star[n]
        data == Head(N.inbox[m])
        peer == star[m].myPeerId
        newDevice == [id |-> peer, name |-> data.payload.name,
                      type |-> data.payload.type, status |-> "online",
                      connection |-> m]
    IN /\ N.inbox[m] # << >>
       /\ N.conns[m].state = "open"
       /\ SetNode(n, [N EXCEPT !.inbox[m] = Tail(@),
                               !.devices = IF Find(@, peer) # 0 THEN @
                                           ELSE Append(@, newDevice),
                               !.activeDeviceId = IF @ # NULL THEN @ ELSE peer])

\* conn.on('close') at n for its connection with m
StarConnOnClose(n, m) ==
    LET N == star[n]
    IN /\ N.conns[m].state \in {"pending", "open"}
       /\ SetNode(n, [N EXCEPT !.conns[m].state = "closed",
                               !.devices = [i \in 1..Len(@) |->
                                              IF @[i].id = star[m].myPeerId
                                              THEN Merge(@[i], [status |-> "offline"])
                                              ELSE @[i]]])

\* onSelectDevice: the user picks a device of the list
StarSelectDevice(n, i) ==
    /\ i \in 1..Len(star[n].devices)
    /\ star[n].activeDeviceId # star[n].devices[i].id
    /\ SetNode(n, [star[n] EXCEPT !.activeDeviceId = star[n].devices[i].id])

NextStar ==
    \/ \E n \in Nodes : StarPeerOnOpen(n)
    \/ \E m, n \in Nodes, isOpen \in BOOLEAN : StarPeerOnConnection(m, n, isOpen)
    \/ \E n, m \in Nodes : StarConnOnOpen(n, m)
    \/ \E n, m \in Nodes : StarHandshakeTimer(n, m)
    \/ \E n, m \in Nodes : StarConnOnData(n, m)
    \/ \E n, m \in Nodes : StarConnOnClose(n, m)
    \/ \E n \in Nodes, i \in 1..2 : StarSelectDevice(n, i)

SpecStar == Init /\ [][NextStar]_vars

\* ================================================================== claims
\* position of files[i] counted from the oldest entry; it never changes,
\* because entries are only ever inserted at the front
Shift == Len(files') - Len(files)

\* the entry was created by handleFileUpload (only it creates Queued entries)
IsLocal(h) == h[1].t = "queued"

\* C1: the Device Directory never holds two entries with the same connection
\* id: a HANDSHAKE from an id that has no entry appends exactly one entry for
\* that id, and a HANDSHAKE from an id that has one leaves the directory as
\* it is, whatever its payload.
C1_HandshakeIdempotent ==
    /\ [](\A i, j \in 1..Len(devices) : devices[i].id = devices[j].id => i = j)
    /\ [][\A c \in Conns, h \in Handshakes :
            OnHandshake(c, h.name, h.type) =>
                IF Find(devices, ConnPeer[c]) # 0
                THEN devices' = devices
                ELSE /\ Len(devices') = Len(devices) + 1
                     /\ SubSeq(devices', 1, Len(devices)) = devices
                     /\ devices'[Len(devices')].id = ConnPeer[c]]_vars

\* two peers are registered and both connections can still deliver HANDSHAKEs
C1_Witness ==
    /\ Len(devices) = 2
    /\ \A c \in DirConns : connState[c] = "open" /\ Find(devices, ConnPeer[c]) # 0

\* the messages a step submits on connection c
NewlySent(c) == SubSeq(sent'[c], Len(sent[c]) + 1, Len(sent'[c]))

\* C2: a Send whose target is found (with a connection) selects exactly the
\* files with fromDevice = "Me" and transferStatus = queued: each goes to
\* Sending and one FILE_CHUNK with its id, name, mime type, size and payload
\* is submitted on the target's connection (none when conn.send raises for
\* it); every other file is left untouched and nothing else is sent.
C2_SendSelectsQueuedMine ==
    [][\A raises \in SUBSET (1..MaxFiles) :
         (handleSendFiles(raises) /\ Find(devicesRef, activeDeviceId) # 0) =>
            LET conn == devicesRef[Find(devicesRef, activeDeviceId)].connection
                sel == {i \in 1..Len(files) : IsQueuedMine(files[i])}
                pos(i) == Cardinality({j \in sel : j <= i})
            IN /\ Len(files') = Len(files)
               /\ \A i \in sel :
                     /\ Len(hist'[i]) > Len(hist[i])
                     /\ hist'[i][Len(hist[i]) + 1].t = "sending"
                     /\ Cardinality({k \in 1..Len(NewlySent(conn)) :
                            NewlySent(conn)[k] = FileChunkMsg(files[i])})
                          = (IF pos(i) \in raises THEN 0 ELSE 1)
               /\ \A i \in 1..Len(files) : i \notin sel => files'[i] = files[i]
               /\ Len(NewlySent(conn)) = Cardinality({i \in sel : pos(i) \notin raises})
               /\ \A c \in Conns : c # conn => sent'[c] = sent[c]]_vars

\* the step is a run of handleSendFiles
IsSend == \E raises \in SUBSET (1..MaxFiles) : handleSendFiles(raises)

\* the step is a run of the FILE_CHUNK case of handleIncomingData
IsFileChunk ==
    \E c \in Conns, id \in FileIds, w \in WireChunks :
        OnFileChunk(c, [id |-> id, name |-> w.name, type |-> w.type,
                        size |-> w.size], w.blob)

\* C3: a file created by handleFileUpload is created Queued, and a local file
\* that is Queued is still Queued after every step that is not a Send.
C3_QueuedUntilSend ==
    [][/\ Shift >= 0
       /\ \A i \in 1..Shift :
            \/ hist'[i][1].t = "queued" /\ files'[i].transferStatus = "queued"
            \/ IsFileChunk
       /\ \A i \in 1..Len(files) :
            (IsLocal(hist[i]) /\ files[i].transferStatus = "queued")
            => \/ files'[i + Shift].transferStatus = "queued"
               \/ IsSend]_vars

\* a local file is still Queued although its analysis has settled, a device
\* has registered, a file has been received and the connection has closed
C3_Witness ==
    \E i, j \in 1..Len(files) :
        /\ IsLocal(hist[i])
        /\ files[i].transferStatus = "queued"
        /\ files[i].analysisStatus \in {"completed", "failed"}
        /\ files[j].transferStatus = "received"
        /\ Len(devices) > 0
        /\ connState["c1"] = "closed"

\* a transition of analysisStatus allowed for a file of this type
AnalysisStepOk(type, a, b) ==
    IF type \in {"IMAGE", "TEXT"}
    THEN <<a, b>> \in {<<"pending", "analyzing">>, <<"analyzing", "completed">>,
                       <<"analyzing", "failed">>}
    ELSE <<a, b>> = <<"pending", "skipped">>

\* C4: every entry starts Pending, and every change of its analysisStatus is
\* Pending -> Analyzing, Analyzing -> Completed or Analyzing -> Failed for an
\* IMAGE or TEXT file and Pending -> Skipped for any other; so Completed,
\* Failed and Skipped are final.
C4_AnalysisLifecycle ==
    \A i \in 1..Len(files) :
        /\ hist[i][1].a = "pending"
        /\ \A k \in 1..(Len(hist[i]) - 1) :
              hist[i][k].a # hist[i][k + 1].a
              => AnalysisStepOk(files[i].type, hist[i][k].a, hist[i][k + 1].a)

\* ------------------------------------------------------------------ liveness
\* a setTimeout callback that is pending runs
LiveSpec ==
    Spec /\ \A id \in FileIds : WF_vars(CompleteTimer(id) /\ UNCHANGED sessVars)

\* the k-th oldest entry of the file collection
Oldest(k) == files[Len(files) + 1 - k]

\* C5: a local file that is Sending (its conn.send returned) is eventually
\* Completed, given only that pending timers fire: no step of the peer is
\* needed.
C5_SendingCompletes ==
    \A k \in 1..MaxFiles :
        (k <= Len(files) /\ IsLocal(hist[Len(files) + 1 - k])
           /\ Oldest(k).transferStatus = "sending")
        ~> (k <= Len(files) /\ Oldest(k).transferStatus = "completed")

\* a local file went Queued -> Sending -> Completed and nothing but the
\* HANDSHAKE that registered the target was ever received
C5_Witness ==
    \E i \in 1..Len(files) :
        /\ IsLocal(hist[i])
        /\ files[i].transferStatus = "completed"
        /\ \E k \in 1..(Len(hist[i]) - 1) :
              hist[i][k].t = "sending" /\ hist[i][k + 1].t = "completed"
        /\ Len(files) = 1
        /\ Len(devices) = 1

\* C6: a local file that has become Failed or Completed never changes its
\* transferStatus again; for a Failed file no completion timer is pending and
\* no FILE_CHUNK was submitted.
C6_FailedAndCompletedFinal ==
    \A i \in 1..Len(files) :
        IsLocal(hist[i]) =>
            /\ \A k \in 1..(Len(hist[i]) - 1) :
                  hist[i][k].t \in {"failed", "completed"}
                  => hist[i][k + 1].t = hist[i][k].t
            /\ files[i].transferStatus = "failed" =>
                  /\ ~ BagIn(files[i].id, timers)
                  /\ \A c \in Conns : \A m \in 1..Len(sent[c]) :
                        sent[c][m] # FileChunkMsg(files[i])

\* one local file is Failed and another, sent in the same or a later Send,
\* is Completed, with no timer left
C6_Witness ==
    \E i, j \in 1..Len(files) :
        /\ IsLocal(hist[i]) /\ files[i].transferStatus = "failed"
        /\ IsLocal(hist[j]) /\ files[j].transferStatus = "completed"
        /\ timers = EmptyBag

\* C7: a device whose connection has closed is offline; no step removes or
\* reorders a directory entry; no step changes the fromDevice of a file.
C7_ClosedIsOfflineAndKept ==
    /\ [](\A i \in 1..Len(devices) :
             connState[devices[i].connection] = "closed"
             => devices[i].status = "offline")
    /\ [][/\ Len(devices') >= Len(devices)
          /\ \A i \in 1..Len(devices) : devices'[i].id = devices[i].id
          /\ Shift >= 0
          /\ \A i \in 1..Len(files) :
                files'[i + Shift].fromDevice = files[i].fromDevice]_vars

\* a device is offline after its connection closed, and the file received
\* from it before is still attributed to it
C7_Witness ==
    \E i \in 1..Len(devices), j \in 1..Len(files) :
        /\ connState[devices[i].connection] = "closed"
        /\ devices[i].status = "offline"
        /\ devices[i].name # ""
        /\ files[j].transferStatus = "received"
        /\ files[j].fromDevice = devices[i].name

\* C8: every FILE_CHUNK submitted is the one built from a local file, and
\* the TransferFile the Receive path builds from it has that file's id, name
\* and size.
C8_RoundTrip ==
    \A c \in Conns : \A m \in 1..Len(sent[c]) :
        sent[c][m].type = "FILE_CHUNK" =>
            \E i \in 1..Len(files) :
                /\ IsLocal(hist[i])
                /\ sent[c][m] = FileChunkMsg(files[i])
                /\ LET rf == ReceivedFile(sent[c][m].payload.meta,
                                          sent[c][m].payload.blob, "Unknown Device")
                   IN /\ rf.id = files[i].id
                      /\ rf.name = files[i].name
                      /\ rf.size = files[i].size

\* two FILE_CHUNKs have been submitted
C8_Witness ==
    \E c \in Conns :
        /\ Len(sent[c]) >= 2
        /\ \E m, n \in 1..Len(sent[c]) :
              /\ m # n
              /\ sent[c][m].type = "FILE_CHUNK"
              /\ sent[c][n].type = "FILE_CHUNK"

\* C9: a file created by the Receive path is not from "Me", is created
\* Received and Pending, and its transferStatus is Received ever after.
C9_ReceivedStaysReceived ==
    \A i \in 1..Len(files) :
        hist[i][1].t = "received" =>
            /\ files[i].fromDevice # "Me"
            /\ hist[i][1].a = "pending"
            /\ \A k \in 1..Len(hist[i]) : hist[i][k].t = "received"

\* C10: a FILE_CHUNK handled on a connection whose peer has a directory
\* entry yields a file attributed to that entry's name, and "Unknown Device"
\* is used only when the peer has no entry.
C10_AttributedToEntry ==
    [][\A c \in Conns :
          (\E id \in FileIds, w \in WireChunks :
              OnFileChunk(c, [id |-> id, name |-> w.name, type |-> w.type,
                              size |-> w.size], w.blob))
          => LET k == Find(devices, ConnPeer[c])
             IN /\ k # 0 => files'[1].fromDevice = devices[k].name
                /\ files'[1].fromDevice = "Unknown Device" => k = 0]_vars

\* the fields of an entry that no update carries
Identity(f) == <<f.id, f.name, f.size, f.type, f.fromDevice, f.fileObject>>

\* C11: every step leaves the entries already present in their relative
\* order, below the entries it adds: the entry at position i is afterwards at
\* position i + (number of entries added), so the added ones are in front.
C11_MostRecentFirst ==
    [][/\ Shift >= 0
       /\ \A i \in 1..Len(files) : Identity(files'[i + Shift]) = Identity(files[i])
       /\ Shift > 0 => \/ IsFileChunk /\ Shift = 1
                       \/ \A i \in 1..Shift : files'[i].fromDevice = "Me"]_vars

\* a received file sits above a local file uploaded before it, and the local
\* file has since been sent and completed
C11_Witness ==
    /\ Len(files) = 2
    /\ files[1].transferStatus = "received"
    /\ IsLocal(hist[2])
    /\ files[2].transferStatus = "completed"
    /\ files[1].id # files[2].id

\* C13: a local file classified TEXT is created Pending and Queued, is
\* Analyzing when handleFileUpload returns, is never Skipped, is Completed or
\* Failed once no analysis call for it is pending, and leaves Queued only by
\* being sent.
C13_TextUploadAnalyzed ==
    \A i \in 1..Len(files) :
        (IsLocal(hist[i]) /\ files[i].type = "TEXT") =>
            /\ hist[i][1] = [a |-> "pending", t |-> "queued"]
            /\ Len(hist[i]) >= 2
            /\ hist[i][2] = [a |-> "analyzing", t |-> "queued"]
            /\ \A k \in 1..Len(hist[i]) : hist[i][k].a # "skipped"
            /\ (\A call \in BagToSet(analysisCalls) : call.id # files[i].id)
               => files[i].analysisStatus \in {"completed", "failed"}
            /\ \/ files[i].transferStatus = "queued"
               \/ \E k \in 1..Len(hist[i]) : hist[i][k].t = "sending"

\* no entry of the collection is Queued and of "Me"
NoQueuedMine == \A i \in 1..Len(files) : ~ IsQueuedMine(files[i])

C18_FailureEndsFailed ==
    \A i \in 1..Len(files) :
        (files[i].type \in {"IMAGE", "TEXT"} /\ files[i].analysisStatus = "completed")
        => files[i].metaData \notin {"api-key-missing", "analysis-failed"}

\* the guard of handleSendFiles fails: no device selected, or the selected
\* one not found
NoTarget == Find(devicesRef, activeDeviceId) = 0

\* C19: a Send invoked while no device is selected, or while the selected
\* device is not in the directory, submits nothing and changes nothing; every
\* Queued file stays Queued.
C19_SendWithoutTarget ==
    [][((NoTarget \/ Find(devices, activeDeviceId) = 0) /\ IsSend)
       => /\ sent' = sent
          /\ timers' = timers
          /\ files' = files]_vars

\* Send can be invoked with a Queued local file present while no device is
\* selected
C19_Witness ==
    /\ activeDeviceId = NULL
    /\ \E i \in 1..Len(files) : IsQueuedMine(files[i])
    /\ connState["c1"] = "open"

\* the analysis side of an entry
AnalysisOf(f) ==
    <<f.analysisStatus, IF "metaData" \in DOMAIN f THEN f.metaData ELSE NULL>>

\* C20: no step changes the transferStatus of one entry and the analysis
\* status or result of an entry; a completion timer that fires leaves every
\* entry of its id Completed and an analysis call that settles leaves every
\* entry of its id Completed or Failed, whatever ran in between.
C20_UpdateIndependent ==
    [][/\ ~ /\ \E i \in 1..Len(files) :
                 files'[i + Shift].transferStatus # files[i].transferStatus
            /\ \E i \in 1..Len(files) :
                 AnalysisOf(files'[i + Shift]) # AnalysisOf(files[i])
       /\ BagCardinality(timers') < BagCardinality(timers)
          => \E id \in BagToSet(timers) :
                \A i \in 1..Len(files) :
                    files[i].id = id => files'[i].transferStatus = "completed"
       /\ BagCardinality(analysisCalls') < BagCardinality(analysisCalls)
          => \E call \in BagToSet(analysisCalls) :
                \A i \in 1..Len(files) :
                    files[i].id = call.id
                    => files'[i].analysisStatus \in {"completed", "failed"}]_vars

\* a local file whose analysis settled while it was Sending and whose
\* completion timer fired afterwards
C20_Witness ==
    \E i \in 1..Len(files) :
        /\ IsLocal(hist[i])
        /\ Len(hist[i]) = 5
        /\ hist[i][3] = [a |-> "analyzing", t |-> "sending"]
        /\ hist[i][4].a \in {"completed", "failed"} /\ hist[i][4].t = "sending"
        /\ hist[i][5].t = "completed"

\* Scenario A: p1 is started without a hostId parameter, p2 with the id p1
\* mints
ScenarioA == proc["p1"].locator = NULL /\ proc["p2"].locator = MintAnchor["p1"]

\* both sides have sent a HANDSHAKE and each directory holds exactly one
\* entry, online, for the other side's id
GoalA ==
    /\ proc["p1"].isHost
    /\ ~ proc["p2"].isHost
    /\ proc["p2"].remoteHostId = proc["p1"].myPeerId
    /\ \A p \in Procs :
          /\ \E k \in 1..Len(proc[p].sent) : proc[p].sent[k].type = "HANDSHAKE"
          /\ Len(proc[p].devices) = 1
          /\ proc[p].devices[1].id = proc[Other(p)].myPeerId
          /\ proc[p].devices[1].status = "online"

\* C12: in Scenario A, once the transport has opened the connection at both
\* ends, and given that timers fire and messages are delivered, either an
\* end closes or both sides end up having sent a HANDSHAKE and holding exactly
\* one directory entry, online, for the other's id.
C12_ScenarioA ==
    (ScenarioA /\ \A p \in Procs : proc[p].conn.state = "open")
    ~> (GoalA \/ \E p \in Procs : proc[p].conn.state = "closed")

\* Scenario A has run to its end with the connection open at both ends
C12_Witness ==
    /\ ScenarioA
    /\ GoalA
    /\ \A p \in Procs : proc[p].conn.state = "open" /\ wire[p] = << >>

\* role, localId, remoteAnchorId and what is published of them
SessionId(P) == <<P.isHost, P.myPeerId, P.remoteHostId, P.hostId, P.shareUrl>>

\* C15: an initialized instance is Anchor exactly when its hostId parameter
\* was absent (or empty), with hostId its own minted id and shareUrl
\* embedding it, and Joiner otherwise, with remoteHostId the given value; and
\* no step, a second run of the initialization effect included, changes
\* role, ids or shareUrl of an initialized instance.
C15_IdentityResolvedOnce ==
    /\ [](\A p \in Procs :
            LET P == proc[p]
            IN P.initializedRef =>
                 /\ P.isHost = (P.locator \in {NULL, ""})
                 /\ P.isHost => /\ P.myPeerId = MintAnchor[p]
                                /\ P.hostId = P.myPeerId
                                /\ P.shareUrl = UrlFor(P.myPeerId)
                 /\ ~ P.isHost => /\ P.myPeerId = MintGuest[p]
                                  /\ P.remoteHostId = P.locator
                                  /\ P.hostId = P.locator)
    /\ [][\A p \in Procs :
            proc[p].initializedRef =>
                /\ proc'[p].initializedRef
                /\ SessionId(proc'[p]) = SessionId(proc[p])]_vars

\* an Anchor and its Joiner are initialized, their Peers open and the
\* connection set up, so the effect could run again at either
C15_Witness ==
    /\ proc["p1"].isHost /\ proc["p1"].peer = "open"
    /\ proc["p1"].url = proc["p1"].myPeerId
    /\ ~ proc["p2"].isHost /\ proc["p2"].initializedRef
    /\ proc["p1"].conn.state = "open"

\* C16: every peer.connect is issued by a Joiner, in the step in which its
\* Peer reports open, to the id of its hostId parameter, and at most once;
\* an Anchor issues none, and the connection it holds is one a Joiner made
\* to its id.
C16_ConnectAfterReady ==
    /\ [](\A p \in Procs :
            LET P == proc[p]
                Q == proc[Other(p)]
            IN /\ Len(P.connects) <= 1
               /\ \A k \in 1..Len(P.connects) :
                     /\ ~ P.isHost
                     /\ P.connects[k].ready
                     /\ P.peer = "open"
                     /\ P.connects[k].target = P.locator
               /\ (P.isHost /\ P.conn.state # "none") =>
                     /\ P.conn.peer = Q.myPeerId
                     /\ Len(Q.connects) = 1
                     /\ Q.connects[1].target = P.myPeerId)
    /\ [][\A p \in Procs :
            proc'[p].connects # proc[p].connects
            => proc[p].peer = "created" /\ proc'[p].peer = "open"]_vars

\* a Joiner has issued its connect and the Anchor has accepted it
C16_Witness ==
    \E p \in Procs :
        /\ ~ proc[p].isHost
        /\ Len(proc[p].connects) = 1
        /\ proc[Other(p)].isHost
        /\ proc[Other(p)].conn.state = "open"

\* the value has the form of an Anchor id: 'ns-' and four more characters
WellFormed(loc) == loc # NULL /\ Len(loc) = 7 /\ StartsWith(loc, "ns-")

\* C17: an instance started with a hostId parameter that is not a well-formed
\* id resolves like one started without: Anchor, with its own minted id, no
\* connect issued and no error shown.
C17_MalformedIsAnchor ==
    \A p \in Procs :
        LET P == proc[p]
        IN (P.initializedRef /\ ~ WellFormed(P.locator)) =>
              /\ P.isHost
              /\ P.myPeerId = MintAnchor[p]
              /\ P.connects = << >>
              /\ ~ P.alerted

\* pending handshake timers fire; nothing is assumed about delivery
LiveHandshake == SpecSession /\ \A p \in Procs : WF_vars(HandshakeTimer(p))

\* C21: each side, the one that connected and the one that accepted, submits
\* at most one message on its connection, the HANDSHAKE with its own name and
\* type, and only once the connection has opened; and given only that its
\* timer fires (no delivery of the peer's HANDSHAKE), a side whose connection
\* is open has sent it or the connection has closed.
C21_HandshakeSymmetric ==
    /\ [](\A p \in Procs :
            /\ Len(proc[p].sent) <= 1
            /\ \A k \in 1..Len(proc[p].sent) :
                  /\ proc[p].sent[k] = HandshakeOf(p)
                  /\ proc[p].conn.state \in {"open", "closed"})
    /\ \A p \in Procs :
          (proc[p].conn.state = "open")
          ~> (Len(proc[p].sent) = 1 \/ proc[p].conn.state = "closed")

\* the side that accepted the connection has sent its HANDSHAKE although its
\* directory is still empty, and so has the side that connected
C21_Witness ==
    \E p \in Procs :
        /\ proc[p].isHost /\ Len(proc[p].sent) = 1 /\ proc[p].devices = << >>
        /\ ~ proc[Other(p)].isHost
        /\ Len(proc[Other(p)].sent) = 1 /\ proc[Other(p)].devices = << >>

\* C23: when handleFileUpload returns, every file it created is Analyzing
\* (IMAGE, TEXT; its analysis call is pending) or Skipped (any other type):
\* none is still Pending and none waits for another file's call, and no Send
\* is needed for that.
C23_EnqueueStartsAnalysis ==
    [][\A i \in 1..Shift :
          hist'[i][1].t = "queued" =>
             /\ files'[i].transferStatus = "queued"
             /\ IF files'[i].type \in {"IMAGE", "TEXT"}
                THEN /\ files'[i].analysisStatus = "analyzing"
                     /\ BagIn([id |-> files'[i].id, type |-> files'[i].type],
                              analysisCalls')
                ELSE files'[i].analysisStatus = "skipped"]_vars

\* two files uploaded together are both Analyzing, with both calls pending,
\* and no Send has touched them
C23_Witness ==
    /\ Len(files) = 2
    /\ BagCardinality(analysisCalls) = 2
    /\ \A i \in 1..2 :
          /\ IsLocal(hist[i])
          /\ files[i].analysisStatus = "analyzing"
          /\ files[i].transferStatus = "queued"
          /\ Len(hist[i]) = 2

\* C28: no two entries of the file collection share an id, so a state update
\* addressed to an id changes exactly one entry.
C28_IdsUnique ==
    \A i, j \in 1..Len(files) : files[i].id = files[j].id => i = j

\* C30: the active selection is empty or names a device of the directory; it
\* leaves the empty value only in the step that registers the first device,
\* taking that device's id, and afterwards only the user's own selection
\* changes it: no handshake, close, error, transfer or analysis step does,
\* even when the selected device goes offline.
C30_SelectionStable ==
    /\ [](activeDeviceId = NULL \/ Find(devices, activeDeviceId) # 0)
    /\ [][\/ activeDeviceId' = activeDeviceId
          \/ /\ activeDeviceId = NULL
             /\ devices = << >>
             /\ Len(devices') = 1
             /\ activeDeviceId' = devices'[1].id
          \/ /\ activeDeviceId # NULL
             /\ \E i \in 1..Len(devices) : SelectDevice(i)]_vars

\* the selected device has gone offline while another registered device is
\* online, and the selection still names the first
C30_Witness ==
    /\ Len(devices) = 2
    /\ activeDeviceId = devices[1].id
    /\ devices[1].status = "offline"
    /\ devices[2].status = "online"

\* C26: a step that delivers a FILE_META or FILE_END message changes neither
\* the Device Directory, the file collection, the active selection nor any
\* connection, and submits no message.
C26_ReservedIgnored ==
    [][rx' \in Reserved =>
          UNCHANGED <<devices, devicesRef, activeDeviceId, files, hist,
                      connState, hsTimers, sent, timers, analysisCalls>>]_vars

\* a reserved message has just been delivered on an open connection whose
\* device is registered and selected, with a file in the collection
C26_Witness ==
    /\ rx \in Reserved
    /\ connState["c1"] = "open"
    /\ Len(devices) = 1
    /\ activeDeviceId = devices[1].id
    /\ Len(files) = 1

\* position of the first "/" of s, 0 if there is none
FirstSlash(s) ==
    IF \E k \in 1..Len(s) : SubSeq(s, k, k) = "/"
    THEN CHOOSE k \in 1..Len(s) :
            /\ SubSeq(s, k, k) = "/"
            /\ \A j \in 1..(k - 1) : SubSeq(s, j, j) # "/"
    ELSE 0

\* the content type is major/*: major, a slash, any subtype
IsOfMajor(mime, major) ==
    FirstSlash(mime) # 0 /\ SubSeq(mime, 1, FirstSlash(mime) - 1) = major

\* the name ends in the suffix
HasSuffix(name, suf) ==
    \E k \in 1..(Len(name) + 1) : SubSeq(name, k, Len(name)) = suf

\* the media kind of a (declared content type, file name) pair, by precedence
Classify(mime, name) ==
    CASE IsOfMajor(mime, "image") -> "IMAGE"
      [] ~IsOfMajor(mime, "image")
         /\ (IsOfMajor(mime, "text") \/ mime = "application/json"
               \/ HasSuffix(name, ".md") \/ HasSuffix(name, ".txt")) -> "TEXT"
      [] OTHER -> IF mime = "application/pdf" THEN "PDF"
                  ELSE IF IsOfMajor(mime, "video") THEN "VIDEO"
                  ELSE "UNKNOWN"

\* C24: every entry, created by upload or by receipt, carries the media kind
\* that the precedence Image, Text, Pdf, Video, Unknown gives to its declared
\* content type and its name.
C24_ClassifierPrecedence ==
    \A i \in 1..Len(files) :
        files[i].type = Classify(files[i].fileObject.type, files[i].name)

\* a received PDF named a.md and an uploaded PDF named b.txt are both Text,
\* next to each other in the collection
C24_Witness ==
    /\ Len(files) = 2
    /\ ~IsLocal(hist[1]) /\ IsLocal(hist[2])
    /\ files[1].fileObject.type = "application/pdf" /\ files[1].name = "a.md"
    /\ files[2].fileObject.type = "application/pdf" /\ files[2].name = "b.txt"
    /\ files[1].type = "TEXT" /\ files[2].type = "TEXT"

\* C27: the step in which a connect fails changes nothing but that
\* connection's state; and in every state with a failed connect, another
\* connection can still be accepted, an open connection still takes a
\* HANDSHAKE, files can still be uploaded and every pending analysis call can
\* still settle.
C27_ConnectFailureNotFatal ==
    /\ [][\A c \in Conns :
            (connState[c] = "pending" /\ connState'[c] = "failed") =>
               /\ UNCHANGED <<devices, devicesRef, activeDeviceId, files, hist,
                              hsTimers, sent, timers, analysisCalls>>
               /\ \A d \in Conns \ {c} : connState'[d] = connState[d]]_vars
    /\ [](\A c \in Conns :
            connState[c] = "failed" =>
               /\ \A d \in Conns :
                     /\ connState[d] = "none" =>
                           ENABLED (setupConnection(d, TRUE) /\ UNCHANGED sessVars)
                     /\ connState[d] = "open" =>
                           \A h \in Handshakes :
                              ENABLED (handleIncomingData(d, HandshakeIn(h))
                                         /\ UNCHANGED sessVars)
               /\ \A f \in LocalFiles :
                     ENABLED (handleFileUpload(<<1>>, <<f>>) /\ UNCHANGED sessVars)
               /\ \A call \in BagToSet(analysisCalls) :
                     \E r \in processFileWithGemini(call.type) :
                        ENABLED (AnalysisSettled(call, r) /\ UNCHANGED sessVars))

\* one connect has failed; the other connection was accepted, its device is
\* registered and online, and an uploaded file has its analysis result
C27_Witness ==
    /\ connState["c1"] = "failed"
    /\ connState["c2"] = "open"
    /\ Len(devices) = 1 /\ devices[1].status = "online"
    /\ Len(files) = 1 /\ files[1].analysisStatus = "completed"

\* C29: no step removes or reorders Device entries, and an existing entry
\* either stays as it is or goes from online to offline with its id, name,
\* type and connection kept; so an offline entry never changes again,
\* whatever HANDSHAKE the same peer sends on whatever connection.
C29_DeviceOnlyGoesOffline ==
    [][/\ Len(devices') >= Len(devices)
       /\ \A i \in 1..Len(devices) :
             \/ devices'[i] = devices[i]
             \/ /\ devices[i].status = "online"
                /\ devices'[i] = [devices[i] EXCEPT !.status = "offline"]]_vars

\* the peer's first connection has closed and its entry is offline; the peer
\* has connected again and its HANDSHAKE has just been handled on the new
\* connection: the entry is still offline and still holds the old connection
C29_Witness ==
    /\ rx = "HANDSHAKE"
    /\ connState["c1"] = "closed"
    /\ connState["c3"] = "open"
    /\ Len(devices) = 1
    /\ devices[1].status = "offline"
    /\ devices[1].connection = "c1"
    /\ devices[1].id = ConnPeer["c3"]

\* C25: once a connection on which no HANDSHAKE has been handled reports an
\* error, no Device entry is created from a HANDSHAKE that arrives on it; in
\* particular not by the very next step (one connection: an empty directory
\* means that its handshake has not completed).
C25_ErroredIsDropped ==
    [][(rx = "ERROR" /\ devices = << >>) => devices' = << >>]_vars

\* C22: in a Send over two or more Queued files of which some raise in
\* conn.send, the entries that become Failed are exactly the selected files
\* that raised; every other selected file is Sending with its FILE_CHUNK
\* submitted and its completion timer started; the directory is unchanged.
C22_FailureIsPerFile ==
    [][\A raises \in SUBSET (1..SendMaxFiles) :
         (/\ raises # {}
          /\ Find(devicesRef, activeDeviceId) # 0
          /\ Cardinality({i \in 1..Len(files) : IsQueuedMine(files[i])}) >= 2
          /\ handleSendFiles(raises)) =>
            LET conn == devicesRef[Find(devicesRef, activeDeviceId)].connection
                sel == {i \in 1..Len(files) : IsQueuedMine(files[i])}
                pos(i) == Cardinality({j \in sel : j <= i})
            IN /\ \A i \in 1..Len(files) :
                     (files'[i].transferStatus = "failed"
                        /\ files[i].transferStatus # "failed")
                     <=> (i \in sel /\ pos(i) \in raises)
               /\ \A i \in sel :
                     pos(i) \notin raises =>
                        /\ files'[i].transferStatus = "sending"
                        /\ BagIn(files[i].id, timers')
                        /\ \E k \in 1..Len(NewlySent(conn)) :
                              NewlySent(conn)[k] = FileChunkMsg(files[i])
               /\ devices' = devices
               /\ connState' = connState]_vars

\* the FILE_CHUNK messages submitted so far for a file id, as pairs of a
\* connection and a position in what was submitted on it
ChunksFor(id) ==
    {ck \in Conns \X (1..(MaxFiles + 1)) :
        /\ ck[2] <= Len(sent[ck[1]])
        /\ sent[ck[1]][ck[2]].type = "FILE_CHUNK"
        /\ sent[ck[1]][ck[2]].payload.meta.id = id}

\* C31: over all connections at most one FILE_CHUNK has been submitted for
\* the id of a local file, and one only for a file that has left Queued; a
\* local file that has left Queued is never Queued again, so no later Send
\* selects it.
C31_AtMostOneChunk ==
    /\ [](\A i \in 1..Len(files) :
            IsLocal(hist[i]) =>
               /\ Cardinality(ChunksFor(files[i].id)) <= 1
               /\ files[i].transferStatus = "queued" => ChunksFor(files[i].id) = {})
    /\ [][\A i \in 1..Len(files) :
            (IsLocal(hist[i]) /\ files[i].transferStatus # "queued")
            => files'[i + Shift].transferStatus # "queued"]_vars

\* a local file was submitted to the first device and is Completed; the
\* second device is now the found target of Send and nothing was submitted
\* to it
C31_Witness ==
    /\ Len(devices) = 2
    /\ Find(devicesRef, activeDeviceId) = 2
    /\ Len(files) = 1
    /\ IsLocal(hist[1])
    /\ files[1].transferStatus = "completed"
    /\ Cardinality(ChunksFor(files[1].id)) = 1
    /\ \A k \in 1..Len(sent[devices[2].connection]) :
          sent[devices[2].connection][k].type # "FILE_CHUNK"

\* the selected device is in the directory, marked offline, and its
\* connection has closed
TargetOffline ==
    LET t == Find(devices, activeDeviceId)
    IN /\ t # 0
       /\ devices[t].status = "offline"
       /\ connState[devices[t].connection] = "closed"

\* C32: a Send invoked while the selected device is offline, its connection
\* closed, submits no message and leaves every Queued file Queued.
C32_NoSendToOffline ==
    [][(TargetOffline /\ IsSend)
       => /\ sent' = sent
          /\ \A i \in 1..Len(files) :
                files[i].transferStatus = "queued"
                => files'[i].transferStatus = "queued"]_vars

\* C33: the step in which a connection closes changes no file, timer,
\* message or selection, and in the directory only sets the entries with the
\* connection's peer id to offline (none: the directory is unchanged); and a
\* local file that is Sending while the connection is closed still becomes
\* Completed, given only that pending timers fire.
C33_CloseTouchesOnlyLiveness ==
    /\ [][\A c \in Conns :
            (connState[c] # "closed" /\ connState'[c] = "closed") =>
               /\ UNCHANGED <<files, hist, timers, sent, activeDeviceId,
                              analysisCalls, devicesRef, hsTimers>>
               /\ Len(devices') = Len(devices)
               /\ \A i \in 1..Len(devices) :
                     devices'[i] =
                        IF devices[i].id = ConnPeer[c]
                        THEN [devices[i] EXCEPT !.status = "offline"]
                        ELSE devices[i]]_vars
    /\ \A k \in 1..MaxFiles :
          (/\ connState["c1"] = "closed"
           /\ k <= Len(files)
           /\ IsLocal(hist[Len(files) + 1 - k])
           /\ Oldest(k).transferStatus = "sending")
          ~> (k <= Len(files) /\ Oldest(k).transferStatus = "completed")

\* the connection closed while a local file submitted on it was Sending (its
\* entry is offline); the file is Completed
C33_Witness ==
    /\ connState["c1"] = "closed"
    /\ Len(devices) = 1 /\ devices[1].status = "offline"
    /\ Len(sent["c1"]) > 0
    /\ \E i \in 1..Len(files) :
          /\ IsLocal(hist[i])
          /\ files[i].transferStatus = "completed"
          /\ devicesRef = devices

\* C34: a step that submits a HANDSHAKE on a connection is taken while that
\* connection is open: not before it has opened and not after it has closed.
C34_HandshakeOnlyWhileOpen ==
    [][\A c \in Conns :
          (/\ Len(sent'[c]) = Len(sent[c]) + 1
           /\ sent'[c][Len(sent'[c])].type = "HANDSHAKE")
          => connState[c] = "open"]_vars

\* the entry the FILE_CHUNK case builds from a message, whoever the sender
ReceivedFrom(msg) ==
    ReceivedFile(msg.payload.meta,
                 [size |-> msg.payload.blob.size, data |-> msg.payload.blob.data],
                 "Unknown Device")

\* the branch of processReceivedFile a file takes
IsAnalysed(f) == f.type \in {"IMAGE", "TEXT"}

\* C35: the entry a receiver builds from a submitted FILE_CHUNK has the type
\* the sender gave the file at upload, hence takes the same branch of
\* processReceivedFile; this for every FILE_CHUNK submitted so far, and for
\* the FILE_CHUNK of every file that could be uploaded, whatever its declared
\* content type and name.
C35_SameKindBothEnds ==
    /\ \A c \in Conns : \A k \in 1..Len(sent[c]) :
          sent[c][k].type = "FILE_CHUNK" =>
             \A i \in 1..Len(files) :
                (IsLocal(hist[i]) /\ files[i].id = sent[c][k].payload.meta.id) =>
                   /\ ReceivedFrom(sent[c][k]).type = files[i].type
                   /\ IsAnalysed(ReceivedFrom(sent[c][k])) = IsAnalysed(files[i])
    /\ \A mime \in ClassMimes, name \in ClassNames :
          LET f == NewLocalFile(1, ClassFile(mime, name))
          IN ReceivedFrom(FileChunkMsg(f)).type = f.type

\* a TEXT file (analysed) and a PDF file (skipped) have both been submitted
C35_Witness ==
    /\ Len(files) = 2
    /\ IsLocal(hist[1]) /\ IsLocal(hist[2])
    /\ files[1].type # files[2].type
    /\ IsAnalysed(files[1]) # IsAnalysed(files[2])
    /\ Cardinality(ChunksFor(files[1].id)) = 1
    /\ Cardinality(ChunksFor(files[2].id)) = 1

\* The file store of a receiver after the FILE_CHUNK case has handled the
\* messages msgs[k..] in this order (the order of per-connection FIFO delivery)
RECURSIVE ReceiveAll(_, _, _)
ReceiveAll(st, msgs, k) ==
    IF k > Len(msgs) THEN st
    ELSE LET receivedFile == ReceivedFrom(msgs[k])
         IN ReceiveAll(processReceivedFile(InsertFront(st, <<receivedFile>>),
                                           receivedFile),
                       msgs, k + 1)

\* C36: when one Send submits two files, the one higher in the sender's
\* collection is submitted first, and after in-order delivery the receiver
\* holds the other one above it.
C36_ReverseOrderOnReceiver ==
    [][\A raises \in SUBSET (1..SendMaxFiles) :
         (Find(devicesRef, activeDeviceId) # 0 /\ handleSendFiles(raises)) =>
            LET conn == devicesRef[Find(devicesRef, activeDeviceId)].connection
                sel == {i \in 1..Len(files) : IsQueuedMine(files[i])}
                pos(i) == Cardinality({j \in sel : j <= i})
                new == NewlySent(conn)
                rcv == ReceiveAll(Store(<< >>, << >>), new, 1).fs
            IN \A i, j \in sel :
                  (i < j /\ pos(i) \notin raises /\ pos(j) \notin raises) =>
                     /\ \E a, b \in 1..Len(new) :
                           /\ a < b
                           /\ new[a] = FileChunkMsg(files[i])
                           /\ new[b] = FileChunkMsg(files[j])
                     /\ \E x, y \in 1..Len(rcv) :
                           /\ x < y
                           /\ rcv[x].id = files[j].id
                           /\ rcv[y].id = files[i].id]_vars

\* one Send has submitted two local files: the FILE_CHUNK of the upper one
\* comes first on the connection
C36_Witness ==
    /\ Len(files) >= 2
    /\ \E i, j \in 1..Len(files) :
          /\ i < j
          /\ IsLocal(hist[i]) /\ IsLocal(hist[j])
          /\ files[i].transferStatus = "sending"
          /\ files[j].transferStatus = "sending"
          /\ \E a \in 1..Len(sent["c1"]) :
                /\ a < Len(sent["c1"])
                /\ sent["c1"][a] = FileChunkMsg([files[i] EXCEPT !.transferStatus = "queued"])
                /\ sent["c1"][a + 1] = FileChunkMsg([files[j] EXCEPT !.transferStatus = "queued"])

\* the guests of the three-instance view
Joiners == {n \in Nodes : ~ star[n].isHost}

\* C37: two guests never have a connection with each other; a guest's
\* directory and selection hold no guest's id; and every entry of the host's
\* directory is a guest that has connected to the host.
C37_StarTopology ==
    /\ \A n, m \in Joiners : star[n].conns[m].state = "none"
    /\ \A n \in Joiners :
          /\ \A i \in 1..Len(star[n].devices) :
                \A m \in Joiners : star[n].devices[i].id # star[m].myPeerId
          /\ \A m \in Joiners : star[n].activeDeviceId # star[m].myPeerId
    /\ \A n \in Nodes \ Joiners :
          \A i \in 1..Len(star[n].devices) :
             \E m \in Joiners :
                /\ star[n].devices[i].id = star[m].myPeerId
                /\ star[m].conns[n].state # "none"

\* both guests are in the host's directory and the host is the one entry,
\* and the selection, of each guest
C37_Witness ==
    /\ Cardinality(Joiners) = 2
    /\ Len(star["a"].devices) = 2
    /\ \A n \in Joiners :
          /\ Len(star[n].devices) = 1
          /\ star[n].devices[1].id = star["a"].myPeerId
          /\ star[n].activeDeviceId = star["a"].myPeerId

\* C38: no step removes or reorders an entry of the file collection, and
\* every entry keeps its id, name, size, type, fromDevice and fileObject for
\* good; so every pending completion timer and every pending analysis call
\* names an id that is in the collection.
C38_AppendOnly ==
    /\ [][/\ Shift >= 0
          /\ \A i \in 1..Len(files) :
                /\ files'[i + Shift].id = files[i].id
                /\ files'[i + Shift].name = files[i].name
                /\ files'[i + Shift].size = files[i].size
                /\ files'[i + Shift].type = files[i].type
                /\ files'[i + Shift].fromDevice = files[i].fromDevice
                /\ files'[i + Shift].fileObject = files[i].fileObject]_vars
    /\ [](/\ \A id \in BagToSet(timers) :
                \E i \in 1..Len(files) : files[i].id = id
          /\ \A call \in BagToSet(analysisCalls) :
                \E i \in 1..Len(files) :
                   files[i].id = call.id /\ files[i].type = call.type)

\* the older of two entries has had its analysis result and its completion
\* written after the newer one was inserted above it or before: both are
\* there, with nothing pending
C38_Witness ==
    /\ Len(files) = 2
    /\ files[2].analysisStatus = "completed"
    /\ files[2].transferStatus = "completed"
    /\ files[1].id # files[2].id
    /\ timers = EmptyBag
    /\ analysisCalls = EmptyBag

====
